---- MODULE Spec2Model ----
(***************************************************************************)
(* The instrument layer of the metrics SDK                                 *)
(* (opentelemetry/sdk/_metrics/_internal/instrument.py).                   *)
(*                                                                         *)
(* One instrument object is modelled: its class, its attribute dictionary, *)
(* the measurement consumer it pushes to, the logger, the user callbacks   *)
(* registered on it and the generator objects returned by callback().      *)
(* Strings are sequences of one-character strings, so that lower-casing,   *)
(* the length limit and the character classes are computed, not assumed.   *)
(***************************************************************************)
EXTENDS Integers, Sequences, FiniteSets, TLC

VARIABLES
    pc,        \* "new": no constructor call yet; "failed": the constructor raised; "ready": constructed
    cls,       \* the class the constructor was called on ("none" before the call)
    self,      \* the object's attribute dictionary: a function from the attribute names stored so far
    raised,    \* the exception the constructor propagated to its caller (NoExc when none)
    consumed,  \* the Measurements handed to consume_measurement, in call order
    log,       \* the records emitted through _logger, in order
    args,      \* history: the arguments of the constructor call
    calls,     \* history: the add/record calls made so far, with what each returned
    pos,       \* per user callback object: its own position (generator step / invocation count)
    cycles,    \* the generator objects returned by callback(), oldest first, with their frames
    threads    \* per calling thread: where it is in add/record, with its arguments and locals

vars == <<pc, cls, self, raised, args, consumed, log, calls, pos, cycles, threads>>

(***************************************************************************)
(* Bounds of the exploration.                                              *)
(***************************************************************************)
MaxCallbacks == 2   \* callbacks registered on one instrument
MaxCycles == 4      \* calls of callback() in one run
MaxAbandoned == 1   \* outputs left unfinished when the next callback() is made
MaxCalls == 2       \* add/record calls in one run
MaxThreads == 2     \* threads calling add/record on the one instrument

(***************************************************************************)
(* Strings.                                                                *)
(***************************************************************************)
MaxIdLen == 63

LowerLetters == {"a", "b", "s"}
UpperLetters == {"A", "B"}
Digits == {"1"}
NameSymbols == {"_", ".", "-", "/"}
NonAscii == {"U+00E9"}   \* one non-ASCII character
Ascii == LowerLetters \cup UpperLetters \cup Digits \cup NameSymbols \cup {" "}

Rep(ch, n) == [i \in 1..n |-> ch]

\* str.lower() on one character and on a string
LowerChar(ch) == CASE ch = "A" -> "a" [] ch = "B" -> "b" [] OTHER -> ch
Lower(s) == [i \in 1..Len(s) |-> LowerChar(s[i])]

\* Instrument._check_name_and_unit
IsNameValid(name) ==
    /\ Len(name) >= 1
    /\ Len(name) <= MaxIdLen
    /\ name[1] \in LowerLetters \cup UpperLetters
    /\ \A i \in 2..Len(name) :
          name[i] \in LowerLetters \cup UpperLetters \cup Digits \cup NameSymbols
IsUnitValid(unit) ==
    /\ Len(unit) <= MaxIdLen
    /\ \A i \in 1..Len(unit) : unit[i] \in Ascii
CheckNameAndUnit(name, unit) == <<IsNameValid(name), IsUnitValid(unit)>>

\* _ERROR_MESSAGE.format(x): the message carries the offending string
ErrorMessage(x) ==
    [type |-> "Exception",
     fmt |-> "Expected ASCII string of maximum length 63 characters but got {}",
     arg |-> x]
NoExc == [type |-> "none", fmt |-> "", arg |-> <<>>]

(***************************************************************************)
(* Values.                                                                 *)
(***************************************************************************)
\* attributes: Dict[str, str], as a set of <<key, value>> pairs
NoAttributes == {}
SomeAttributes == {<<"k", "v">>}
Attributes == {NoAttributes, SomeAttributes}

\* what a user callback yields: the API measurement, read through .value and .attributes
Observation(value, attributes) == [value |-> value, attributes |-> attributes]

\* the reference held in Measurement.instrument: the object of class c with dictionary s
Ref(c, s) == [cls |-> c, name |-> s.name]

\* opentelemetry.sdk._metrics.measurement.Measurement(value, instrument, attributes)
Measurement(value, instrument, attributes) ==
    [value |-> value, instrument |-> instrument, attributes |-> attributes]

(***************************************************************************)
(* User callbacks.  One invocation of a callback (or one step of a step-   *)
(* producer) either raises at the call, or returns an iterable that gives  *)
(* `items` and then ends ("end") or raises while being iterated ("exc": a  *)
(* lazy iterable that fails, or an item without .value/.attributes).       *)
(***************************************************************************)
Returns(items) == [raise |-> "none", items |-> items, tail |-> "end"]
ReturnsFailing(items) == [raise |-> "none", items |-> items, tail |-> "exc"]
RaisesException == [raise |-> "exc", items |-> <<>>, tail |-> "end"]
RaisesStopIteration == [raise |-> "stop", items |-> <<>>, tail |-> "end"]

\* The callback objects the application may register.  gen: a generator object
\* (step-producer), whose script is its successive steps; otherwise a plain
\* callable, whose script is what its successive invocations do, repeated.
Pool ==
    <<  \* 1: a pure plain callable returning two items
        [gen |-> FALSE,
         script |-> <<Returns(<<Observation(11, NoAttributes), Observation(12, SomeAttributes)>>)>>],
        \* 2: a plain callable that raises on its second invocation, recovers on
        \*    its third and returns an iterable that fails after one item on its fourth
        [gen |-> FALSE,
         script |-> <<Returns(<<Observation(21, NoAttributes)>>),
                      RaisesException,
                      Returns(<<Observation(22, SomeAttributes), Observation(23, NoAttributes)>>),
                      ReturnsFailing(<<Observation(24, NoAttributes)>>)>>],
        \* 3: a step-producer yielding batch A, then batch B, then returning
        [gen |-> TRUE,
         script |-> <<Returns(<<Observation(31, NoAttributes), Observation(32, SomeAttributes)>>),
                      Returns(<<Observation(41, SomeAttributes)>>)>>],
        \* 4: a step-producer whose body raises at its second step
        [gen |-> TRUE,
         script |-> <<Returns(<<Observation(51, NoAttributes)>>),
                      RaisesException,
                      Returns(<<Observation(52, NoAttributes)>>)>>],
        \* 5: a plain callable returning nothing, then raising StopIteration
        [gen |-> FALSE,
         script |-> <<Returns(<<>>), RaisesStopIteration>>]
    >>
PoolIds == DOMAIN Pool

\* callback(): one call of a plain callable; its own state is its invocation count
CallPlain(cb, p) ==
    LET n == Len(Pool[cb].script) IN
    [res |-> Pool[cb].script[(p[cb] % n) + 1],
     pos |-> [p EXCEPT ![cb] = (@ + 1) % n]]

\* next(callback) on a generator object: a finished generator raises
\* StopIteration; a generator whose body raises is finished from then on
NextGenerator(cb, p) ==
    LET n == Len(Pool[cb].script) IN
    IF p[cb] >= n
    THEN [res |-> RaisesStopIteration, pos |-> p]
    ELSE LET r == Pool[cb].script[p[cb] + 1] IN
         [res |-> r, pos |-> [p EXCEPT ![cb] = IF r.raise = "none" THEN @ + 1 ELSE n]]

(***************************************************************************)
(* Construction.                                                           *)
(***************************************************************************)
SyncClasses == {"Counter", "UpDownCounter", "Histogram"}
AsyncClasses == {"ObservableCounter", "ObservableUpDownCounter", "ObservableGauge"}

NoAttrs == <<>>   \* the dictionary of an object on which no attribute was set

\* a slip: the generator is registered as it is, without the closure
InnerUnwrapped(callback) == [wrapped |-> FALSE, target |-> callback]

\* the closure `inner` built for a generator, or the callable itself
Inner(callback) == [wrapped |-> TRUE, target |-> callback]
AsIs(callback) == [wrapped |-> FALSE, target |-> callback]

\* a slip: each callback is put at the front of self._callbacks
RECURSIVE WrapCallbacksPrepending(_, _)
WrapCallbacksPrepending(callbacks, acc) ==
    IF callbacks = <<>>
    THEN acc
    ELSE LET callback == Head(callbacks) IN
         WrapCallbacksPrepending(Tail(callbacks),
                                 <<IF Pool[callback].gen
                                   THEN [wrapped |-> TRUE, target |-> callback]
                                   ELSE [wrapped |-> FALSE, target |-> callback]>> \o acc)

\* a slip: the closure reads the loop variable when it is called, so every
\* closure advances the callback the loop ended on
RECURSIVE WrapCallbacksLateBinding(_, _)
WrapCallbacksLateBinding(callbacks, acc) ==
    IF callbacks = <<>>
    THEN acc
    ELSE LET callback == Head(callbacks) IN
         WrapCallbacksLateBinding(Tail(callbacks),
                                  Append(acc, IF Pool[callback].gen
                                              THEN [wrapped |-> TRUE,
                                                    target |-> callbacks[Len(callbacks)]]
                                              ELSE [wrapped |-> FALSE, target |-> callback]))

\* the loop of _Asynchronous.__init__ over callbacks, appending to self._callbacks
RECURSIVE WrapCallbacks(_, _)
WrapCallbacks(callbacks, acc) ==
    IF callbacks = <<>>
    THEN acc
    ELSE LET callback == Head(callbacks) IN
         WrapCallbacks(Tail(callbacks),
                       Append(acc, IF Pool[callback].gen
                                   THEN Inner(callback)
                                   ELSE AsIs(callback)))

\* a slip: the unit is checked before the name, and the name is stored before the checks
SynchronousInitStoringFirst(name, instrumentation_scope, measurement_consumer, unit, description) ==
    LET chk == CheckNameAndUnit(name, unit) IN
    IF ~chk[2] THEN [self |-> [name |-> Lower(name)], raised |-> ErrorMessage(unit)]
    ELSE IF ~chk[1] THEN [self |-> [name |-> Lower(name)], raised |-> ErrorMessage(name)]
    ELSE [self |-> [name |-> Lower(name),
                    unit |-> unit,
                    description |-> description,
                    instrumentation_scope |-> instrumentation_scope,
                    _measurement_consumer |-> measurement_consumer],
          raised |-> NoExc]

\* _Synchronous.__init__: the dictionary at return or at the raise, and the exception
SynchronousInit(name, instrumentation_scope, measurement_consumer, unit, description) ==
    LET chk == CheckNameAndUnit(name, unit) IN
    IF ~chk[1] THEN [self |-> NoAttrs, raised |-> ErrorMessage(name)]
    ELSE IF ~chk[2] THEN [self |-> NoAttrs, raised |-> ErrorMessage(unit)]
    ELSE [self |-> [name |-> Lower(name),
                    unit |-> unit,
                    description |-> description,
                    instrumentation_scope |-> instrumentation_scope,
                    _measurement_consumer |-> measurement_consumer],
          raised |-> NoExc]

\* a slip: the name is stored as given, not lower-cased
AsynchronousInitKeepingCase(name, instrumentation_scope, measurement_consumer, callbacks, unit, description) ==
    LET chk == CheckNameAndUnit(name, unit) IN
    IF ~chk[1] THEN [self |-> NoAttrs, raised |-> ErrorMessage(name)]
    ELSE IF ~chk[2] THEN [self |-> NoAttrs, raised |-> ErrorMessage(unit)]
    ELSE [self |-> [name |-> name,
                    unit |-> unit,
                    description |-> description,
                    instrumentation_scope |-> instrumentation_scope,
                    _measurement_consumer |-> measurement_consumer,
                    _callbacks |-> IF callbacks.given
                                   THEN WrapCallbacks(callbacks.items, <<>>)
                                   ELSE <<>>],
          raised |-> NoExc]

\* _Asynchronous.__init__; callbacks.given is FALSE for callbacks=None
AsynchronousInit(name, instrumentation_scope, measurement_consumer, callbacks, unit, description) ==
    LET chk == CheckNameAndUnit(name, unit) IN
    IF ~chk[1] THEN [self |-> NoAttrs, raised |-> ErrorMessage(name)]
    ELSE IF ~chk[2] THEN [self |-> NoAttrs, raised |-> ErrorMessage(unit)]
    ELSE [self |-> [name |-> Lower(name),
                    unit |-> unit,
                    description |-> description,
                    instrumentation_scope |-> instrumentation_scope,
                    _measurement_consumer |-> measurement_consumer,
                    _callbacks |-> IF callbacks.given
                                   THEN WrapCallbacks(callbacks.items, <<>>)
                                   ELSE <<>>],
          raised |-> NoExc]

(***************************************************************************)
(* _Asynchronous.callback: a generator function.  A frame is one generator *)
(* object it returned: the index of the callback whose iterable the for    *)
(* loop is in, what is left of that iterable, and where the generator is.  *)
(* out is what it has yielded; slots, invoked and failed are history: the  *)
(* callback each yielded Measurement came from, the invocations made with  *)
(* their results, and the callbacks in whose processing a failure arose.   *)
(* When outputs are advanced by different threads, a thread can be         *)
(* descheduled inside next(callback) on a user generator: its frame is     *)
(* then "running", entered is where that generator stood when the thread   *)
(* went in, and preempt marks a next() that the scheduler will so suspend. *)
(* Back from it, the frame is "resumed": still inside the same next().     *)
(***************************************************************************)
NewFrame ==
    [state |-> "created", idx |-> 0, iter |-> <<>>, tail |-> "end",
     out |-> <<>>, slots |-> <<>>, invoked |-> <<>>, failed |-> {},
     preempt |-> FALSE, entered |-> 0]

\* _logger.exception("Callback failed for instrument %s.", self.name)
CallbackFailedRecord(name) ==
    [level |-> "exception", fmt |-> "Callback failed for instrument %s.", arg |-> name]

\* a slip: only StopIteration is caught, any other exception leaves the generator
ExceptStopIterationOnly(kind, name, lg) ==
    IF kind = "stop"
    THEN [propagates |-> FALSE, log |-> lg]
    ELSE [propagates |-> TRUE, log |-> lg]

\* a slip: the StopIteration clause is missing, so the broad clause logs it too
ExceptLoggingExhaustion(kind, name, lg) ==
    [propagates |-> FALSE,
     log |-> Append(lg, [level |-> "exception",
                         fmt |-> "Callback failed for instrument %s.", arg |-> name])]

\* the except clauses around the inner loop: StopIteration is passed over,
\* any other Exception is logged; neither leaves the generator
Except(kind, name, lg) ==
    IF kind = "stop"
    THEN [propagates |-> FALSE, log |-> lg]
    ELSE [propagates |-> FALSE, log |-> Append(lg, CallbackFailedRecord(name))]

\* a slip: every registered entry is advanced with next(), plain callables too
CallAlwaysNext(entry, p) == NextGenerator(entry.target, p)

\* the user generators some thread is inside of
Running == {k \in DOMAIN cycles : cycles[k].state = "running"}
Busy == {self._callbacks[cycles[k].idx].target : k \in Running}

\* next() on a generator that is executing: ValueError, an Exception
AlreadyExecuting ==
    [raise |-> "exc", items |-> <<>>, tail |-> "end",
     error |-> "ValueError: generator already executing"]

\* a slip: a generator that is executing can be entered again
CallReentering(entry, p) ==
    IF entry.wrapped
    THEN NextGenerator(entry.target, p)
    ELSE IF Pool[entry.target].gen
         THEN [res |-> RaisesException, pos |-> p]
         ELSE CallPlain(entry.target, p)

\* callback() in `for api_measurement in callback()`: the canonical callable.
\* Calling a generator object that was registered unwrapped is a TypeError.
Call(entry, p) ==
    IF entry.wrapped
    THEN IF entry.target \in Busy
         THEN [res |-> AlreadyExecuting, pos |-> p]
         ELSE NextGenerator(entry.target, p)
    ELSE IF Pool[entry.target].gen
         THEN [res |-> RaisesException, pos |-> p]
         ELSE CallPlain(entry.target, p)

\* One next() on the generator object: run from where it stands to its next
\* yield, or to its end.  f: the frame, p: the callbacks' positions, lg: the log.
RECURSIVE Resume(_, _, _, _, _)
Resume(f, p, lg, c, s) ==
    IF f.state = "running"
    THEN \* the thread inside next(callback) runs the generator to its yield or end
         LET i == f.idx
             r == NextGenerator(s._callbacks[i].target,
                                [p EXCEPT ![s._callbacks[i].target] = f.entered])
             g == [f EXCEPT !.state = "resumed",
                            !.invoked = Append(@, [slot |-> i, entry |-> s._callbacks[i],
                                                   res |-> r.res]),
                            !.failed = IF r.res.raise = "exc" THEN @ \cup {i} ELSE @]
         IN  IF r.res.raise = "none"
             THEN [frame |-> [g EXCEPT !.iter = r.res.items, !.tail = r.res.tail],
                   pos |-> r.pos, log |-> lg]
             ELSE LET h == Except(r.res.raise, s.name, lg)
                  IN  [frame |-> [g EXCEPT !.state = IF h.propagates THEN "raised" ELSE @],
                       pos |-> r.pos, log |-> h.log]
    ELSE IF f.iter # <<>>
    THEN \* yield Measurement(api_measurement.value, instrument=self, attributes=...)
         [frame |-> [f EXCEPT !.state = "suspended",
                              !.iter = Tail(@),
                              !.out = Append(@, Measurement(Head(f.iter).value, Ref(c, s),
                                                            Head(f.iter).attributes)),
                              !.slots = Append(@, f.idx)],
          pos |-> p, log |-> lg]
    ELSE IF f.tail = "exc"
    THEN \* the iterable, or reading an item, raised inside the try
         LET h == Except("exc", s.name, lg)
             g == [f EXCEPT !.tail = "end", !.failed = @ \cup {f.idx}]
         IN  IF h.propagates
             THEN [frame |-> [g EXCEPT !.state = "raised"], pos |-> p, log |-> h.log]
             ELSE Resume(g, p, h.log, c, s)
    ELSE IF f.idx >= Len(s._callbacks)
    THEN [frame |-> [f EXCEPT !.state = "done"], pos |-> p, log |-> lg]
    ELSE IF /\ f.preempt
            /\ s._callbacks[f.idx + 1].wrapped
            /\ s._callbacks[f.idx + 1].target \notin Busy
    THEN \* descheduled just inside next(callback)
         [frame |-> [f EXCEPT !.state = "running", !.idx = @ + 1, !.preempt = FALSE,
                              !.entered = p[s._callbacks[f.idx + 1].target]],
          pos |-> p, log |-> lg]
    ELSE LET i == f.idx + 1
             r == Call(s._callbacks[i], p)
             g == [f EXCEPT !.idx = i,
                            !.invoked = Append(@, [slot |-> i, entry |-> s._callbacks[i],
                                                   res |-> r.res]),
                            !.failed = IF r.res.raise = "exc" THEN @ \cup {i} ELSE @]
         IN  IF r.res.raise = "none"
             THEN Resume([g EXCEPT !.iter = r.res.items, !.tail = r.res.tail],
                         r.pos, lg, c, s)
             ELSE LET h == Except(r.res.raise, s.name, lg)
                  IN  IF h.propagates
                      THEN [frame |-> [g EXCEPT !.state = "raised"],
                            pos |-> r.pos, log |-> h.log]
                      ELSE Resume(g, r.pos, h.log, c, s)

Open(f) == f.state \in {"created", "suspended", "running", "resumed"}
Unfinished == {k \in DOMAIN cycles : Open(cycles[k])}

(***************************************************************************)
(* Synchronous recording.  Each operator gives what one call does: the     *)
(* Measurements it hands to consume_measurement and the records it logs.   *)
(***************************************************************************)
WarningRecord(fmt, name) == [level |-> "warning", fmt |-> fmt, arg |-> name]

\* a slip: zero is rejected too
CounterAddRejectingZero(c, s, amount, attributes) ==
    IF amount <= 0
    THEN [deliver |-> <<>>,
          log |-> <<WarningRecord("Add amount must be non-negative on Counter %s.", s.name)>>]
    ELSE [deliver |-> <<Measurement(amount, Ref(c, s), attributes)>>, log |-> <<>>]

\* Counter.add
CounterAdd(c, s, amount, attributes) ==
    IF amount < 0
    THEN [deliver |-> <<>>,
          log |-> <<WarningRecord("Add amount must be non-negative on Counter %s.", s.name)>>]
    ELSE [deliver |-> <<Measurement(amount, Ref(c, s), attributes)>>, log |-> <<>>]

\* a slip: the Counter's sign check is applied
UpDownCounterAddChecked(c, s, amount, attributes) ==
    IF amount < 0
    THEN [deliver |-> <<>>,
          log |-> <<WarningRecord("Add amount must be non-negative on Counter %s.", s.name)>>]
    ELSE [deliver |-> <<Measurement(amount, Ref(c, s), attributes)>>, log |-> <<>>]

\* UpDownCounter.add
UpDownCounterAdd(c, s, amount, attributes) ==
    [deliver |-> <<Measurement(amount, Ref(c, s), attributes)>>, log |-> <<>>]

\* a slip: the warning is logged but the return is missing
HistogramRecordWithoutReturn(c, s, amount, attributes) ==
    [deliver |-> <<Measurement(amount, Ref(c, s), attributes)>>,
     log |-> IF amount < 0
             THEN <<WarningRecord("Record amount must be non-negative on Histogram %s.", s.name)>>
             ELSE <<>>]

\* Histogram.record
HistogramRecord(c, s, amount, attributes) ==
    IF amount < 0
    THEN [deliver |-> <<>>,
          log |-> <<WarningRecord("Record amount must be non-negative on Histogram %s.", s.name)>>]
    ELSE [deliver |-> <<Measurement(amount, Ref(c, s), attributes)>>, log |-> <<>>]

\* add or record, by the class of the object it is called on
RecordingEffect(c, s, amount, attributes) ==
    CASE c = "Counter" -> CounterAdd(c, s, amount, attributes)
      [] c = "UpDownCounter" -> UpDownCounterAdd(c, s, amount, attributes)
      [] c = "Histogram" -> HistogramRecord(c, s, amount, attributes)

\* A thread outside any call.  In a call: its arguments, the Measurement it
\* has built (a local of the call) and, as history, how many it built.
Threads == 1..MaxThreads
Idle == [pc |-> "idle", amount |-> 0, attributes |-> NoAttributes, m |-> <<>>, built |-> 0]

(***************************************************************************)
(* Inputs.                                                                 *)
(***************************************************************************)
Names ==
    {<<"A", "b">>, <<"a", "1", "_", "B">>,                 \* valid
     <<>>, <<"1", "a">>, <<"a", "U+00E9">>, <<"a", " ">>,  \* empty, leading digit, non-ASCII, space
     Rep("a", MaxIdLen + 1)}                                \* too long
Units ==
    {<<>>, <<"s">>,                                         \* valid
     <<"U+00E9">>, Rep("s", MaxIdLen + 1)}                  \* non-ASCII, too long
Descriptions == {"d"}
Scopes == {"scope"}
Consumers == {"consumer"}
Amounts == {-2, -1, 0, 1}

NoCallbacks == [given |-> FALSE, items |-> <<>>]
NoArgs ==
    [name |-> <<>>, unit |-> <<>>, description |-> "", instrumentation_scope |-> "",
     measurement_consumer |-> "", callbacks |-> NoCallbacks]
Args(name, scope, consumer, callbacks, unit, description) ==
    [name |-> name, unit |-> unit, description |-> description,
     instrumentation_scope |-> scope, measurement_consumer |-> consumer,
     callbacks |-> callbacks]

SeqsUpTo(S, n) == UNION {[1..k -> S] : k \in 0..n}
CallbackArgs ==
    {NoCallbacks}
        \cup {[given |-> TRUE, items |-> q] : q \in SeqsUpTo(PoolIds, MaxCallbacks)}

(***************************************************************************)
(* The state machine.                                                      *)
(***************************************************************************)
Init ==
    /\ pc = "new"
    /\ cls = "none"
    /\ self = NoAttrs
    /\ raised = NoExc
    /\ args = NoArgs
    /\ consumed = <<>>
    /\ log = <<>>
    /\ calls = <<>>
    /\ pos = [cb \in PoolIds |-> 0]
    /\ cycles = <<>>
    /\ threads = [t \in Threads |-> Idle]

Finish(r, c, a) ==
    /\ cls' = c
    /\ args' = a
    /\ self' = r.self
    /\ raised' = r.raised
    /\ pc' = IF r.raised = NoExc THEN "ready" ELSE "failed"
    /\ UNCHANGED <<threads, consumed, log, calls, pos, cycles>>

\* Counter(...), UpDownCounter(...), Histogram(...)
ConstructSync ==
    /\ pc = "new"
    /\ \E c \in SyncClasses, name \in Names, unit \in Units, description \in Descriptions,
          scope \in Scopes, consumer \in Consumers :
          Finish(SynchronousInit(name, scope, consumer, unit, description), c,
                 Args(name, scope, consumer, NoCallbacks, unit, description))

\* ObservableCounter(...), ObservableUpDownCounter(...), ObservableGauge(...)
ConstructAsync ==
    /\ pc = "new"
    /\ \E c \in AsyncClasses, name \in Names, unit \in Units, description \in Descriptions,
          scope \in Scopes, consumer \in Consumers, callbacks \in CallbackArgs :
          Finish(AsynchronousInit(name, scope, consumer, callbacks, unit, description), c,
                 Args(name, scope, consumer, callbacks, unit, description))

\* a slip: a rejected call notes the rejection on the instrument
RecordNotingRejection(op, effect, amount, attributes, fails) ==
    /\ consumed' = consumed \o effect.deliver
    /\ log' = log \o effect.log
    /\ calls' = Append(calls,
                       [op |-> op, amount |-> amount, attributes |-> attributes,
                        outcome |-> IF effect.deliver # <<>> /\ fails
                                    THEN "raised" ELSE "returned"])
    /\ self' = IF effect.log # <<>> THEN [self EXCEPT !.description = "rejected"] ELSE self
    /\ UNCHANGED <<threads, pc, cls, raised, args, pos, cycles>>

\* one add/record call; the consumer's consume_measurement may itself raise,
\* which nothing in add/record catches
Record(op, effect, amount, attributes, fails) ==
    /\ consumed' = consumed \o effect.deliver
    /\ log' = log \o effect.log
    /\ calls' = Append(calls,
                       [op |-> op, amount |-> amount, attributes |-> attributes,
                        outcome |-> IF effect.deliver # <<>> /\ fails
                                    THEN "raised" ELSE "returned"])
    /\ UNCHANGED <<threads, pc, cls, self, raised, args, pos, cycles>>

DoCounterAdd ==
    /\ pc = "ready" /\ cls = "Counter" /\ Len(calls) < MaxCalls
    /\ \E amount \in Amounts, attributes \in Attributes, fails \in BOOLEAN :
          Record("add", CounterAdd(cls, self, amount, attributes), amount, attributes, fails)

DoUpDownCounterAdd ==
    /\ pc = "ready" /\ cls = "UpDownCounter" /\ Len(calls) < MaxCalls
    /\ \E amount \in Amounts, attributes \in Attributes, fails \in BOOLEAN :
          Record("add", UpDownCounterAdd(cls, self, amount, attributes), amount, attributes, fails)

DoHistogramRecord ==
    /\ pc = "ready" /\ cls = "Histogram" /\ Len(calls) < MaxCalls
    /\ \E amount \in Amounts, attributes \in Attributes, fails \in BOOLEAN :
          Record("record", HistogramRecord(cls, self, amount, attributes), amount, attributes, fails)

\* a slip: callback() invokes the first callback at once, before any next()
CollectPrefetching ==
    /\ pc = "ready" /\ cls \in AsyncClasses
    /\ Len(cycles) < MaxCycles
    /\ Cardinality(Unfinished) <= MaxAbandoned
    /\ IF self._callbacks = <<>>
       THEN cycles' = Append(cycles, NewFrame) /\ pos' = pos
       ELSE LET r == Call(self._callbacks[1], pos) IN
            /\ cycles' = Append(cycles,
                                [NewFrame EXCEPT !.idx = 1,
                                                 !.iter = r.res.items,
                                                 !.tail = r.res.tail,
                                                 !.invoked = <<[slot |-> 1,
                                                                entry |-> self._callbacks[1],
                                                                res |-> r.res]>>])
            /\ pos' = r.pos
    /\ UNCHANGED <<threads, pc, cls, self, raised, args, consumed, log, calls>>

\* instrument.callback(): returns a new generator object; none of its body runs
Collect ==
    /\ pc = "ready" /\ cls \in AsyncClasses
    /\ Len(cycles) < MaxCycles
    /\ Cardinality(Unfinished) <= MaxAbandoned
    /\ cycles' = Append(cycles, NewFrame)
    /\ UNCHANGED <<threads, pc, cls, self, raised, args, consumed, log, calls, pos>>

\* a slip: a callback that failed is taken off self._callbacks when the cycle ends
NextOnDroppingFailed(k) ==
    /\ Open(cycles[k])
    /\ LET r == Resume(cycles[k], pos, log, cls, self) IN
          /\ cycles' = [cycles EXCEPT ![k] = r.frame]
          /\ pos' = r.pos
          /\ log' = r.log
          /\ self' = IF r.frame.state = "done"
                     THEN [self EXCEPT !._callbacks =
                              [u \in 1..Len(SelectSeq([t \in DOMAIN @ |-> t],
                                                      LAMBDA t : t \notin r.frame.failed)) |->
                                  self._callbacks[SelectSeq([t \in DOMAIN self._callbacks |-> t],
                                                  LAMBDA t : t \notin r.frame.failed)[u]]]]
                     ELSE self
    /\ UNCHANGED <<threads, pc, cls, raised, args, consumed, calls>>

\* a slip: a callback that signalled exhaustion is taken off self._callbacks
NextOnDroppingExhausted(k) ==
    /\ Open(cycles[k])
    /\ LET r == Resume(cycles[k], pos, log, cls, self)
           gone == {r.frame.invoked[i].slot : i \in {i \in DOMAIN r.frame.invoked :
                                                        r.frame.invoked[i].res.raise = "stop"}}
           kept == SelectSeq([t \in DOMAIN self._callbacks |-> t], LAMBDA t : t \notin gone)
       IN /\ cycles' = [cycles EXCEPT ![k] = r.frame]
          /\ pos' = r.pos
          /\ log' = r.log
          /\ self' = IF r.frame.state = "done"
                     THEN [self EXCEPT !._callbacks =
                              [u \in 1..Len(kept) |-> self._callbacks[kept[u]]]]
                     ELSE self
    /\ UNCHANGED <<threads, pc, cls, raised, args, consumed, calls>>

\* next() on the generator object cycles[k]
NextOn(k) ==
    /\ Open(cycles[k])
    /\ LET r == Resume(cycles[k], pos, log, cls, self) IN
          /\ cycles' = [cycles EXCEPT ![k] = r.frame]
          /\ pos' = r.pos
          /\ log' = r.log
    /\ UNCHANGED <<threads, pc, cls, self, raised, args, consumed, calls>>

\* the collector consumes the output of the latest callback() call
Consume ==
    /\ cycles # <<>>
    /\ NextOn(Len(cycles))

(***************************************************************************)
(* callback() outputs advanced side by side, each by a thread of its own.  *)
(***************************************************************************)
\* ObservableGauge(...) with whatever callbacks; the identity plays no part here
ConstructObservable ==
    /\ pc = "new"
    /\ \E callbacks \in CallbackArgs :
          Finish(AsynchronousInit(<<"A", "b">>, "scope", "consumer", callbacks, <<"s">>, "d"),
                 "ObservableGauge",
                 Args(<<"A", "b">>, "scope", "consumer", callbacks, <<"s">>, "d"))

\* next() on cycles[k], its thread descheduled inside the next generator it enters
NextOnPreempted(k) ==
    /\ cycles[k].state \in {"created", "suspended", "resumed"}
    /\ LET r == Resume([cycles[k] EXCEPT !.preempt = TRUE], pos, log, cls, self) IN
          /\ r.frame.state = "running"
          /\ cycles' = [cycles EXCEPT ![k] = r.frame]
          /\ pos' = r.pos
          /\ log' = r.log
    /\ UNCHANGED <<threads, pc, cls, self, raised, args, consumed, calls>>

NextOverlap ==
    \/ ConstructObservable
    \/ Collect
    \/ \E k \in DOMAIN cycles : NextOn(k)
    \/ \E k \in DOMAIN cycles : NextOnPreempted(k)

SpecOverlap == Init /\ [][NextOverlap]_vars

(***************************************************************************)
(* add/record called from several threads.  A call is entered, then runs   *)
(* to the point where it either has logged the warning and returned, or    *)
(* has built its Measurement; then it hands it to the consumer and returns.*)
(* The consumer and the logger take one call at a time.                    *)
(***************************************************************************)
Started == Len(calls) + Cardinality({t \in Threads : threads[t].pc # "idle"})
Completed(t, outcome) ==
    [op |-> IF cls = "Histogram" THEN "record" ELSE "add",
     amount |-> threads[t].amount, attributes |-> threads[t].attributes,
     outcome |-> outcome, built |-> threads[t].built]

\* thread t calls add(amount, attributes) / record(amount, attributes)
ThreadCall(t) ==
    /\ pc = "ready" /\ cls \in SyncClasses
    /\ threads[t].pc = "idle"
    /\ Started < MaxCalls
    /\ \E amount \in Amounts, attributes \in Attributes :
          threads' = [threads EXCEPT ![t] = [Idle EXCEPT !.pc = "entered",
                                                         !.amount = amount,
                                                         !.attributes = attributes]]
    /\ UNCHANGED <<pc, cls, self, raised, args, consumed, log, calls, pos, cycles>>

\* a slip: the Measurement is kept where every caller reads it, not in a local
ThreadBuildShared(t) ==
    /\ threads[t].pc = "entered"
    /\ LET effect == RecordingEffect(cls, self, threads[t].amount, threads[t].attributes) IN
          IF effect.deliver = <<>>
          THEN /\ log' = log \o effect.log
               /\ calls' = Append(calls, Completed(t, "returned"))
               /\ threads' = [threads EXCEPT ![t] = Idle]
          ELSE /\ threads' = [u \in Threads |->
                                 IF u = t
                                 THEN [threads[t] EXCEPT !.pc = "built", !.m = effect.deliver,
                                                         !.built = @ + Len(effect.deliver)]
                                 ELSE IF threads[u].pc = "built"
                                      THEN [threads[u] EXCEPT !.m = effect.deliver]
                                      ELSE threads[u]]
               /\ UNCHANGED <<log, calls>>
    /\ UNCHANGED <<pc, cls, self, raised, args, consumed, pos, cycles>>

\* thread t runs the sign check: it logs and returns, or builds its Measurement
ThreadBuild(t) ==
    /\ threads[t].pc = "entered"
    /\ LET effect == RecordingEffect(cls, self, threads[t].amount, threads[t].attributes) IN
          IF effect.deliver = <<>>
          THEN /\ log' = log \o effect.log
               /\ calls' = Append(calls, Completed(t, "returned"))
               /\ threads' = [threads EXCEPT ![t] = Idle]
          ELSE /\ threads' = [threads EXCEPT ![t].pc = "built",
                                             ![t].m = effect.deliver,
                                             ![t].built = @ + Len(effect.deliver)]
               /\ UNCHANGED <<log, calls>>
    /\ UNCHANGED <<pc, cls, self, raised, args, consumed, pos, cycles>>

\* thread t calls consume_measurement with what it built, and returns or raises
ThreadDeliver(t) ==
    /\ threads[t].pc = "built"
    /\ consumed' = consumed \o threads[t].m
    /\ \E fails \in BOOLEAN :
          calls' = Append(calls, Completed(t, IF fails THEN "raised" ELSE "returned"))
    /\ threads' = [threads EXCEPT ![t] = Idle]
    /\ UNCHANGED <<pc, cls, self, raised, args, log, pos, cycles>>

NextThreads ==
    \/ ConstructSync
    \/ \E t \in Threads : ThreadCall(t)
    \/ \E t \in Threads : ThreadBuild(t)
    \/ \E t \in Threads : ThreadDeliver(t)

SpecThreads == Init /\ [][NextThreads]_vars

Next ==
    \/ ConstructSync
    \/ ConstructAsync
    \/ DoCounterAdd
    \/ DoUpDownCounterAdd
    \/ DoHistogramRecord
    \/ Collect
    \/ Consume

Spec == Init /\ [][Next]_vars

(***************************************************************************)
(* Properties.  Helpers that read the history kept in the frames.          *)
(***************************************************************************)
Range(q) == {q[i] : i \in DOMAIN q}
Indices(q) == [t \in 1..Len(q) |-> t]

Frames == {cycles[k] : k \in DOMAIN cycles}
DoneFrames == {f \in Frames : f.state = "done"}
Registered == IF pc = "ready" /\ cls \in AsyncClasses THEN DOMAIN self._callbacks ELSE {}

\* the Measurements frame f yielded while iterating the callback at slot j
OutOf(f, j) ==
    LET at == SelectSeq(Indices(f.out), LAMBDA t : f.slots[t] = j)
    IN  [u \in 1..Len(at) |-> f.out[at[u]]]

\* the invocations frame f made of the callback at slot j
InvocationsOf(f, j) == SelectSeq(f.invoked, LAMBDA e : e.slot = j)

\* the items of one invocation's result, as the Measurements of this instrument
AsMeasurements(items) ==
    [t \in 1..Len(items) |->
        [value |-> items[t].value,
         instrument |-> [cls |-> cls, name |-> self.name],
         attributes |-> items[t].attributes]]

Succeeded(res) == res.raise = "none" /\ res.tail = "end"

\* C1: when a callback raises a failure other than exhaustion during a cycle,
\* nothing propagates out of the generator, and once the output is consumed
\* every callback registered after the failing one was invoked in that cycle
\* and all the items it returned are in the output.
C1_CallbackIsolation ==
    \A f \in Frames :
        /\ f.state # "raised"
        /\ f.state = "done" =>
              \A i \in f.failed : \A j \in Registered :
                  j > i =>
                      /\ Len(InvocationsOf(f, j)) = 1
                      /\ OutOf(f, j) = AsMeasurements(InvocationsOf(f, j)[1].res.items)

\* a consumed cycle in which the first of two callbacks failed and the second gave items
C1_Witness ==
    \E f \in DoneFrames :
        /\ 1 \in f.failed
        /\ Len(self._callbacks) = 2
        /\ OutOf(f, 2) # <<>>

\* step-producers all of whose steps return a batch: batch after batch, then exhaustion
BatchProducers ==
    {g \in PoolIds : Pool[g].gen /\ \A t \in DOMAIN Pool[g].script : Succeeded(Pool[g].script[t])}
RegisteredOnceAt(g, j) ==
    /\ j \in Registered
    /\ {i \in DOMAIN args.callbacks.items : args.callbacks.items[i] = g} = {j}
\* every callback() output was consumed to its end before the next call was made
Sequential == \A k \in DOMAIN cycles : k < Len(cycles) => cycles[k].state = "done"
Min(a, b) == IF a < b THEN a ELSE b

\* C2: for a step-producer registered once that yields its batches and then is
\* exhausted, with each cycle consumed before the next starts, the k-th cycle
\* outputs exactly the k-th batch, every cycle after the last batch outputs
\* nothing from it, and its position is the number of steps taken, never less.
C2_StepProducerSequencing ==
    \A g \in BatchProducers : \A j \in Registered :
        (RegisteredOnceAt(g, j) /\ Sequential) =>
            /\ \A k \in DOMAIN cycles :
                  cycles[k].state = "done" =>
                      OutOf(cycles[k], j) =
                          IF k <= Len(Pool[g].script)
                          THEN AsMeasurements(Pool[g].script[k].items)
                          ELSE <<>>
            /\ pos[g] = Min(Cardinality({k \in DOMAIN cycles : InvocationsOf(cycles[k], j) # <<>>}),
                            Len(Pool[g].script))

\* four consumed cycles of the only callback, a two-batch producer: A, B, nothing, nothing
C2_Witness ==
    /\ Len(cycles) = 4
    /\ DoneFrames = Frames
    /\ args.callbacks.items = <<3>>
    /\ Len(cycles[1].out) = 2
    /\ Len(cycles[2].out) = 1
    /\ cycles[3].out = <<>>
    /\ cycles[4].out = <<>>

\* C3 as claimed: a cycle's output holds no Measurement from a callback in
\* whose processing a failure arose in that cycle, wherever it arose.
C3_FailingCallbackContributesNothing ==
    \A f \in Frames : \A j \in f.failed : OutOf(f, j) = <<>>

\* C4: a callback in whose processing a failure arose in one cycle is still
\* registered, and is invoked again in the next cycle; when that invocation
\* succeeds, the next cycle's output holds exactly the items it returned.
C4_FailureNotSticky ==
    \A k \in DOMAIN cycles :
        (k < Len(cycles) /\ cycles[k].state = "done" /\ cycles[k + 1].state = "done") =>
            \A j \in cycles[k].failed :
                LET before == InvocationsOf(cycles[k], j)
                    after == InvocationsOf(cycles[k + 1], j)
                IN  /\ j \in Registered
                    /\ self._callbacks[j] = before[1].entry
                    /\ Len(after) = 1
                    /\ after[1].entry = before[1].entry
                    /\ Succeeded(after[1].res) =>
                          OutOf(cycles[k + 1], j) = AsMeasurements(after[1].res.items)

\* a callback failed in one cycle and gave two Measurements in the next
C4_Witness ==
    \E k \in DOMAIN cycles :
        /\ k < Len(cycles)
        /\ cycles[k].state = "done"
        /\ cycles[k + 1].state = "done"
        /\ \E j \in cycles[k].failed :
              /\ Succeeded(InvocationsOf(cycles[k + 1], j)[1].res)
              /\ Len(OutOf(cycles[k + 1], j)) = 2

RECURSIVE ConcatResults(_)
ConcatResults(inv) ==
    IF inv = <<>> THEN <<>>
    ELSE AsMeasurements(Head(inv).res.items) \o ConcatResults(Tail(inv))

\* C5: a consumed cycle invoked the callbacks c1..cn given to the constructor,
\* in that order, once each, and its output is the concatenation in that order
\* of the items each gave, each callback's items in the order it gave them.
C5_RegistrationOrder ==
    \A f \in DoneFrames :
        /\ Len(f.invoked) = Len(args.callbacks.items)
        /\ \A i \in DOMAIN f.invoked :
              /\ f.invoked[i].slot = i
              /\ f.invoked[i].entry.target = args.callbacks.items[i]
        /\ f.out = ConcatResults(f.invoked)
        /\ \A a, b \in DOMAIN f.slots : a < b => f.slots[a] <= f.slots[b]

\* a consumed cycle over two different callbacks that both gave items
C5_Witness ==
    \E f \in DoneFrames :
        /\ Len(args.callbacks.items) = 2
        /\ args.callbacks.items[1] # args.callbacks.items[2]
        /\ OutOf(f, 1) # <<>>
        /\ OutOf(f, 2) # <<>>

\* a plain callable that returns the same items at every invocation
Pure(cb) ==
    /\ ~Pool[cb].gen
    /\ Len(Pool[cb].script) = 1
    /\ Succeeded(Pool[cb].script[1])

\* C6: a plain callable is invoked once in every consumed cycle; when it
\* returns N items the cycle holds exactly N Measurements from it, each with
\* the item's value and attributes and this instrument; a pure callable gives
\* the same output in every cycle.
C6_PlainCallbacksRerun ==
    \A f \in DoneFrames : \A j \in Registered :
        ~Pool[args.callbacks.items[j]].gen =>
            LET inv == InvocationsOf(f, j)
                got == OutOf(f, j)
            IN  /\ Len(inv) = 1
                /\ Succeeded(inv[1].res) =>
                      /\ Len(got) = Len(inv[1].res.items)
                      /\ \A t \in DOMAIN got :
                            /\ got[t].value = inv[1].res.items[t].value
                            /\ got[t].attributes = inv[1].res.items[t].attributes
                            /\ got[t].instrument = [cls |-> cls, name |-> self.name]
                /\ Pure(args.callbacks.items[j]) =>
                      /\ Len(got) = Len(Pool[args.callbacks.items[j]].script[1].items)
                      /\ \A h \in DoneFrames : OutOf(h, j) = got

\* three consumed cycles of a pure callable, two Measurements each
C6_Witness ==
    /\ Len(cycles) >= 3
    /\ args.callbacks.items = <<1>>
    /\ \A k \in 1..3 : cycles[k].state = "done" /\ Len(cycles[k].out) = 2

\* the Measurement a call of add/record is to deliver
Delivered(call) ==
    [value |-> call.amount,
     instrument |-> [cls |-> cls, name |-> self.name],
     attributes |-> call.attributes]
NonNegative(cs) == SelectSeq(cs, LAMBDA call : call.amount >= 0)
Negative(cs) == SelectSeq(cs, LAMBDA call : call.amount < 0)

\* C7: on a Counter or a Histogram, after any sequence of calls with amounts
\* >= 0 (zero included) the consumer has received one Measurement per call, in
\* call order, each with that call's amount and attributes and this instrument.
C7_NonNegativeDelivered ==
    (pc = "ready" /\ cls \in {"Counter", "Histogram"} /\ Negative(calls) = <<>>) =>
        /\ Len(consumed) = Len(calls)
        /\ \A i \in DOMAIN calls : consumed[i] = Delivered(calls[i])

\* two accepted calls, one of them with amount zero, on either class
C7_Witness ==
    /\ cls \in {"Counter", "Histogram"}
    /\ Len(calls) = 2
    /\ calls[1].amount = 0
    /\ calls[2].amount = 1
    /\ calls[1].attributes # calls[2].attributes
    /\ Len(consumed) = 2

\* C8: on a Counter or a Histogram a call with an amount < 0 hands nothing to
\* the consumer, logs exactly one warning naming the instrument and returns
\* normally, and the calls with amounts >= 0 around it are delivered as usual.
C8_NegativeRejected ==
    (pc = "ready" /\ cls \in {"Counter", "Histogram"}) =>
        /\ Len(log) = Len(Negative(calls))
        /\ \A i \in DOMAIN log :
              /\ log[i].level = "warning"
              /\ log[i].arg = Lower(args.name)
              /\ log[i].fmt = IF cls = "Counter"
                              THEN "Add amount must be non-negative on Counter %s."
                              ELSE "Record amount must be non-negative on Histogram %s."
        /\ \A i \in DOMAIN calls : calls[i].amount < 0 => calls[i].outcome = "returned"
        /\ Len(consumed) = Len(NonNegative(calls))
        /\ \A i \in DOMAIN consumed : consumed[i] = Delivered(NonNegative(calls)[i])

\* a rejected call followed by a delivered one
C8_Witness ==
    /\ cls = "Histogram"
    /\ Len(calls) = 2
    /\ calls[1].amount < 0
    /\ calls[2].amount >= 0
    /\ Len(log) = 1
    /\ Len(consumed) = 1

\* C9: on an UpDownCounter every call, whatever the sign of its amount, hands
\* the consumer exactly one Measurement with that amount, the given attributes
\* and this instrument, and nothing is logged.
C9_UpDownCounterUnrestricted ==
    (pc = "ready" /\ cls = "UpDownCounter") =>
        /\ log = <<>>
        /\ Len(consumed) = Len(calls)
        /\ \A i \in DOMAIN calls : consumed[i] = Delivered(calls[i])

\* a negative and a zero amount, both delivered
C9_Witness ==
    /\ cls = "UpDownCounter"
    /\ Len(calls) = 2
    /\ calls[1].amount < 0
    /\ calls[2].amount = 0
    /\ Len(consumed) = 2

\* C10: for each of the six classes, when the name or the unit is reported
\* invalid the constructor raises an error carrying the offending string (the
\* name when the name is invalid, otherwise the unit), and at that point no
\* attribute is stored on the object, no callback is registered or was
\* invoked, and nothing was handed to the consumer or logged.
C10_InvalidIdentifierRejected ==
    /\ (pc # "new" /\ ~(IsNameValid(args.name) /\ IsUnitValid(args.unit))) => pc = "failed"
    /\ pc = "failed" =>
          /\ raised.type = "Exception"
          /\ raised.arg = IF ~IsNameValid(args.name) THEN args.name ELSE args.unit
          /\ DOMAIN self = {}
          /\ \A cb \in PoolIds : pos[cb] = 0
          /\ cycles = <<>>
          /\ consumed = <<>>
          /\ log = <<>>

\* an asynchronous construction with callbacks, a valid name and an invalid unit
C10_Witness ==
    /\ pc = "failed"
    /\ cls \in AsyncClasses
    /\ args.callbacks.items # <<>>
    /\ IsNameValid(args.name)
    /\ ~IsUnitValid(args.unit)
    /\ raised.arg = args.unit

\* what lower-casing is to give, character by character
LowerCased(given, stored) ==
    /\ Len(stored) = Len(given)
    /\ \A i \in DOMAIN given :
          CASE given[i] = "A" -> stored[i] = "a"
            [] given[i] = "B" -> stored[i] = "b"
            [] OTHER -> stored[i] = given[i]
JustConstructed == pc # "new" /\ calls = <<>> /\ cycles = <<>>

\* C11: for every name and unit that pass the validity check, construction of
\* each of the six classes succeeds; the stored name is the given name in lower
\* case, and unit, description, instrumentation scope and consumer are stored
\* as given.
C11_ValidConstructionStores ==
    (JustConstructed /\ IsNameValid(args.name) /\ IsUnitValid(args.unit)) =>
        /\ pc = "ready"
        /\ raised = NoExc
        /\ LowerCased(args.name, self.name)
        /\ self.unit = args.unit
        /\ self.description = args.description
        /\ self.instrumentation_scope = args.instrumentation_scope
        /\ self._measurement_consumer = args.measurement_consumer

\* an asynchronous instrument built from a name with an upper-case letter, a digit and a symbol
C11_Witness ==
    /\ JustConstructed
    /\ pc = "ready"
    /\ cls = "ObservableGauge"
    /\ args.name = <<"a", "1", "_", "B">>
    /\ self.name = <<"a", "1", "_", "b">>
    /\ self.unit = <<"s">>

\* C12 as claimed: every add/record call on a constructed instrument returns
\* normally to its caller, whatever the amount and whether or not the
\* consumer's consume_measurement fails.
C12_RecordingNeverRaises ==
    \A i \in DOMAIN calls : calls[i].outcome = "returned"

\* C14: in every state reached by add, record and collection (rejected
\* amounts, exhausted and failing callbacks included) the instrument's name,
\* unit, description and instrumentation scope are those construction stored.
C14_IdentityImmutable ==
    pc = "ready" =>
        /\ LowerCased(args.name, self.name)
        /\ self.unit = args.unit
        /\ self.description = args.description
        /\ self.instrumentation_scope = args.instrumentation_scope

\* after two cycles, one with a failing callback and one with an exhausted one
C14_Witness ==
    /\ pc = "ready"
    /\ Len(cycles) >= 2
    /\ \E f \in DoneFrames : f.failed # {}
    /\ \E f \in DoneFrames : \E i \in DOMAIN f.invoked : f.invoked[i].res.raise = "stop"

\* C15: a callback that signals exhaustion contributes no Measurement, raises
\* nothing out of the generator, and the callbacks after it still run; and
\* whatever the callbacks do, self._callbacks holds the entries of the
\* constructor's callbacks, in the same order, no more and no fewer.
C15_ExhaustionAbsorbed ==
    (pc = "ready" /\ cls \in AsyncClasses) =>
        /\ Len(self._callbacks) = Len(args.callbacks.items)
        /\ \A j \in DOMAIN self._callbacks :
              /\ self._callbacks[j].target = args.callbacks.items[j]
              /\ self._callbacks[j].wrapped = Pool[args.callbacks.items[j]].gen
        /\ \A f \in Frames : \A i \in DOMAIN f.invoked :
              f.invoked[i].res.raise = "stop" =>
                  /\ f.state # "raised"
                  /\ OutOf(f, f.invoked[i].slot) = <<>>
                  /\ f.state = "done" =>
                        \A j \in Registered :
                            j > f.invoked[i].slot => Len(InvocationsOf(f, j)) = 1

\* a consumed cycle whose first callback signalled exhaustion and whose second gave items
C15_Witness ==
    \E f \in DoneFrames :
        /\ Len(f.invoked) = 2
        /\ f.invoked[1].res.raise = "stop"
        /\ OutOf(f, 2) # <<>>

\* the k-th step of generator g: a generator whose body raised is finished
StepOf(g, k) ==
    IF k <= Len(Pool[g].script) /\ \A t \in 1..(k - 1) : Pool[g].script[t].raise = "none"
    THEN Pool[g].script[k]
    ELSE [raise |-> "stop", items |-> <<>>, tail |-> "end"]
\* the position of generator g after n next() calls on it
PosAfter(g, n) ==
    IF \E t \in 1..Min(n, Len(Pool[g].script)) : Pool[g].script[t].raise # "none"
    THEN Len(Pool[g].script)
    ELSE Min(n, Len(Pool[g].script))
InvokingFrames(j) == {k \in DOMAIN cycles : InvocationsOf(cycles[k], j) # <<>>}

\* C16: each registered step-producer has a closure of its own: with every
\* cycle consumed before the next, the closure at slot j advances the producer
\* given at position j and no other, so cycle k outputs, at slot j, step k of
\* that producer, and a producer's position counts its own steps only.
C16_OneWrapperPerProducer ==
    \A g \in PoolIds : \A j \in Registered :
        (Pool[g].gen /\ RegisteredOnceAt(g, j) /\ Sequential) =>
            /\ self._callbacks[j] = [wrapped |-> TRUE, target |-> g]
            /\ \A k \in DOMAIN cycles :
                  cycles[k].state = "done" =>
                      /\ Len(InvocationsOf(cycles[k], j)) = 1
                      /\ InvocationsOf(cycles[k], j)[1].res = StepOf(g, k)
                      /\ OutOf(cycles[k], j) = AsMeasurements(StepOf(g, k).items)
            /\ pos[g] = PosAfter(g, Cardinality(InvokingFrames(j)))

\* two different step-producers, two consumed cycles: A then the other's first
\* batch, then B alone (the other producer's second step raises)
C16_Witness ==
    /\ args.callbacks.items = <<3, 4>>
    /\ Len(cycles) = 2
    /\ DoneFrames = Frames
    /\ Len(OutOf(cycles[1], 1)) = 2
    /\ Len(OutOf(cycles[1], 2)) = 1
    /\ Len(OutOf(cycles[2], 1)) = 1
    /\ OutOf(cycles[2], 2) = <<>>

RECURSIVE FailuresIn(_)
FailuresIn(fs) ==
    IF fs = <<>> THEN 0 ELSE Cardinality(Head(fs).failed) + FailuresIn(Tail(fs))

\* C17: the failure reports logged are as many as the callbacks in whose
\* processing a failure other than exhaustion arose, cycle after cycle, each
\* naming the instrument; exhaustion and an empty return cause no report.
C17_ReportsMatchFailures ==
    (pc = "ready" /\ cls \in AsyncClasses) =>
        /\ Len(log) = FailuresIn(cycles)
        /\ \A i \in DOMAIN log :
              log[i] = [level |-> "exception",
                        fmt |-> "Callback failed for instrument %s.",
                        arg |-> self.name]
        /\ \A f \in Frames : \A i \in DOMAIN f.invoked :
              (f.invoked[i].res.raise = "stop" \/ Succeeded(f.invoked[i].res)) =>
                  f.invoked[i].slot \notin f.failed

\* an empty return in the first cycle, an exhaustion and a failure in the second: one report
C17_Witness ==
    /\ Len(cycles) = 2
    /\ DoneFrames = Frames
    /\ Len(cycles[1].invoked) = 2
    /\ cycles[1].invoked[1].res = [raise |-> "none", items |-> <<>>, tail |-> "end"]
    /\ cycles[2].invoked[1].res.raise = "stop"
    /\ cycles[2].failed = {2}
    /\ Len(log) = 1

\* C18: callback() by itself invokes nothing; a generator object has invoked
\* exactly the callbacks up to the one whose item it last yielded, so callback
\* i+1 is invoked only by the request that follows callback i's last item;
\* a step-producer's position counts only the outputs that reached it.
C18_InvocationDeferred ==
    /\ \A f \in Frames :
          /\ f.state = "created" => (f.invoked = <<>> /\ f.out = <<>> /\ f.idx = 0)
          /\ Len(f.invoked) = f.idx
          /\ \A i \in DOMAIN f.invoked : f.invoked[i].slot = i
          /\ f.state = "suspended" => f.slots[Len(f.slots)] = f.idx
    /\ \A g \in PoolIds : \A j \in Registered :
          (Pool[g].gen /\ RegisteredOnceAt(g, j)) =>
              pos[g] = PosAfter(g, Cardinality(InvokingFrames(j)))

\* an output left after the first callback's first item, and one never
\* iterated: the step-producer registered second has not moved
C18_Witness ==
    /\ Len(cycles) = 2
    /\ Len(args.callbacks.items) = 2
    /\ Pool[args.callbacks.items[2]].gen
    /\ cycles[1].state = "suspended"
    /\ cycles[1].idx = 1
    /\ cycles[2].state = "created"
    /\ pos[args.callbacks.items[2]] = 0

Accepted(cs) == SelectSeq(cs, LAMBDA call : cls = "UpDownCounter" \/ call.amount >= 0)

\* C13: with several threads inside add/record on one instrument, in every
\* interleaving each call builds at most one Measurement, which stays the one
\* made from its own amount and attributes until it is handed over; the
\* consumer has received exactly one Measurement per accepted call that got
\* that far, each that call's own; and the instrument's attributes are those
\* construction stored.
C13_ConcurrentRecordingSafe ==
    (pc = "ready" /\ cls \in SyncClasses) =>
        /\ \A t \in Threads :
              /\ threads[t].built <= 1
              /\ threads[t].pc = "built" =>
                    /\ threads[t].built = 1
                    /\ threads[t].m = <<Delivered(threads[t])>>
        /\ \A i \in DOMAIN calls :
              calls[i].built = IF cls = "UpDownCounter" \/ calls[i].amount >= 0 THEN 1 ELSE 0
        /\ Len(consumed) = Len(Accepted(calls))
        /\ \A i \in DOMAIN consumed : consumed[i] = Delivered(Accepted(calls)[i])
        /\ DOMAIN self = {"name", "unit", "description", "instrumentation_scope",
                          "_measurement_consumer"}
        /\ LowerCased(args.name, self.name)
        /\ self.unit = args.unit
        /\ self.description = args.description
        /\ self.instrumentation_scope = args.instrumentation_scope
        /\ self._measurement_consumer = args.measurement_consumer

\* two threads inside add at once, each holding its own Measurement, after a
\* first call was delivered
C13_Witness ==
    /\ cls = "Counter"
    /\ threads[1].pc = "built"
    /\ threads[2].pc = "built"
    /\ threads[1].amount # threads[2].amount
    /\ threads[1].m # threads[2].m

\* the invocations, over all outputs, that were handed step i of generator g
HandedAt(g, i) ==
    {kt \in UNION {{<<k, t>> : t \in DOMAIN cycles[k].invoked} : k \in DOMAIN cycles} :
        LET e == cycles[kt[1]].invoked[kt[2]]
        IN  e.entry.wrapped /\ e.entry.target = g /\ e.res = Pool[g].script[i]}
\* where, over all outputs, a Measurement with value v was yielded
YieldedAt(v) ==
    {kt \in UNION {{<<k, t>> : t \in DOMAIN cycles[k].out} : k \in DOMAIN cycles} :
        cycles[kt[1]].out[kt[2]].value = v}
Generators == {g \in PoolIds : Pool[g].gen}

\* C19: with the outputs of several callback() calls advanced in any
\* interleaving, a thread possibly descheduled inside a step-producer while
\* others go on, no output ends with an error; each step of a step-producer
\* is handed to at most one invocation over all outputs; the steps handed out
\* so far are always the producer's first ones, and within one output come
\* in its order; and each item of a step is yielded at most once over all
\* outputs.
C19_OverlapNeverDuplicates ==
    (pc = "ready" /\ cls \in AsyncClasses) =>
        /\ \A f \in Frames : f.state # "raised"
        /\ \A g \in Generators : \A i \in DOMAIN Pool[g].script :
              /\ Cardinality(HandedAt(g, i)) <= 1
              /\ HandedAt(g, i) # {} => \A h \in 1..(i - 1) : HandedAt(g, h) # {}
              /\ \A h \in 1..(i - 1) : \A a \in HandedAt(g, h) : \A b \in HandedAt(g, i) :
                    a[1] = b[1] => a[2] < b[2]
              /\ \A t \in DOMAIN Pool[g].script[i].items :
                    Cardinality(YieldedAt(Pool[g].script[i].items[t].value)) <= 1

\* two outputs open at once: the thread of one was inside the step-producer
\* when the other tried it and was refused, and the first then yielded the
\* step's first item
C19_Witness ==
    \E k \in DOMAIN cycles : \E j \in DOMAIN cycles :
        /\ k # j
        /\ \E t \in DOMAIN cycles[k].invoked : cycles[k].invoked[t].res = AlreadyExecuting
        /\ cycles[j].state = "suspended"
        /\ \E t \in DOMAIN cycles[j].out : cycles[j].out[t].value = 31
        /\ Open(cycles[k])

====
